---- MODULE Spec2Model ----
(***************************************************************************)
(* The truck-packing demo: truck_packing_demo.py (text report) and         *)
(* viz_demo.py (streamlit table/chart).  Both scripts are one straight     *)
(* pipeline: problem set-up -> build the CQM -> submit to the hybrid CQM   *)
(* sampler -> process the results.  One behaviour of the model is one run  *)
(* of one of the two scripts.                                              *)
(*                                                                         *)
(* Python lists indexed 0..N-1 are functions over 0..N-1.  The sampleset   *)
(* is a sequence of rows (1-based here, 0-based in numpy), each row        *)
(* carrying the sample, its energy and its is_feasible flag; the solver    *)
(* evaluates the CQM it was handed, so energy is the objective's value and *)
(* is_feasible is the conjunction of the two constraints.  A Python value  *)
(* that is not assigned yet is the empty sequence << >>, an assigned value *)
(* v is << v >>.                                                           *)
(***************************************************************************)
EXTENDS Integers, Sequences, FiniteSets, TLC

\* Bounds of the model (the scripts use 300 packages, weights up to 100,
\* max_weight 3000 and max_packages 100; the sampler returns any number of rows).
MaxNumPackages == 2
MaxSamples == 2
MaxPkgWeight == 2
MaxTruckWeight == 3
MaxTruckPackages == 3
MaxObjWeight == 2

Scripts == {"truck_packing_demo", "viz_demo"}

\* random.choice([1,2,3]) / random.choices((1, 2, 3), ...)
PriorityChoices == {1, 2, 3}

\* random.choice([0,1,2,3]) / random.choices((0, 1, 2, 3), ...)
AgeChoices == {0, 1, 2, 3}

\* random.randint(1, 100) / random.choices(range(1, 101), ...), scaled
WeightChoices == 1..MaxPkgWeight

obj_weight_priority == 1

obj_weight_days == 1

VARIABLES
  script,             \* which of the two scripts runs
  pc,                 \* the next step of the script, or how it ended
  num_packages,
  priority,
  days_since_order,
  weight,
  max_weight,
  max_packages,
  cqm,                \* what the ConstrainedQuadraticModel holds so far
  submissions,        \* number of sample_cqm calls made
  sampleset,          \* rows returned by the sampler
  first_feasible_sol, \* << set of shipped indices >> once selected
  problem_array,      \* << 3x4 grid >> once tabulated
  results_array,      \* << 3x4 grid >> once tabulated
  total_weight,       \* << n >> once computed
  total_count,        \* << n >> once computed (len of the shipped indices)
  printed             \* the parts of the report written so far

vars == <<script, pc, num_packages, priority, days_since_order, weight,
          max_weight, max_packages, cqm, submissions, sampleset,
          first_feasible_sol, problem_array, results_array, total_weight,
          total_count, printed>>

----------------------------------------------------------------------------
\* Helpers

\* range(n)
range(n) == 0..(n - 1)

\* dimod.quicksum / sum over a generator: 0 for an empty one
RECURSIVE quicksum(_, _)
quicksum(f, S) ==
  IF S = {} THEN 0
  ELSE LET i == CHOOSE j \in S : TRUE
       IN  f[i] + quicksum(f, S \ {i})

\* All 0/1 assignments of the n binary variables
Assignments(n) == [range(n) -> {0, 1}]

Min(S) == CHOOSE m \in S : \A k \in S : m <= k

----------------------------------------------------------------------------
\* The model handed to the sampler

\* objective1 = -obj_weight_priority * quicksum(priority[i] * bin_variables[i] ...)
objective1(x, wp) ==
  (0 - wp) * quicksum([i \in range(num_packages) |-> priority[i] * x[i]],
                      range(num_packages))

objective2_positive(x, wd) ==
  wd * quicksum([i \in range(num_packages) |-> days_since_order[i] * x[i]],
                range(num_packages))

\* objective2 = -obj_weight_days * quicksum(days_since_order[i] * bin_variables[i] ...)
objective2(x, wd) ==
  (0 - wd) * quicksum([i \in range(num_packages) |-> days_since_order[i] * x[i]],
                      range(num_packages))

\* cqm.set_objective(objective1 + objective2)
objective(x, wp, wd) == objective1(x, wp) + objective2(x, wd)

max_weight_dropped(x) == TRUE

\* quicksum(weight[i] * bin_variables[i] ...) <= max_weight, label='max_weight'
max_weight_constraint(x) ==
  quicksum([i \in range(num_packages) |-> weight[i] * x[i]],
           range(num_packages)) <= max_weight

max_packages_upper_bound(x) ==
  quicksum([i \in range(num_packages) |-> x[i]], range(num_packages))
    <= max_packages

\* quicksum(bin_variables[i] ...) == max_packages, label='max_packages'
max_packages_constraint(x) ==
  quicksum([i \in range(num_packages) |-> x[i]], range(num_packages))
    = max_packages

\* A row of the sampleset for sample x, as the sampler annotates it
Row(x) ==
  [sample      |-> x,
   energy      |-> objective(x, obj_weight_priority, obj_weight_days),
   is_feasible |-> max_weight_constraint(x) /\ max_packages_constraint(x)]

EmptyCQM == [variables |-> {}, objective |-> FALSE, constraints |-> {}]

BuiltCQM ==
  [variables   |-> range(num_packages),
   objective   |-> TRUE,
   constraints |-> {"max_weight", "max_packages"}]

----------------------------------------------------------------------------
\* The 3x4 contingency grid

\* np.zeros((3, 4)).astype(int)
ZeroGrid == [r \in 0..2 |-> [c \in 0..3 |-> 0]]

RowOf_unflipped(p) == p - 1

\* -1 * (priority[i]-3)
RowOf(p) == (0 - 1) * (p - 3)

\* -1 * (days_since_order[i] - 3)
ColOf(d) == (0 - 1) * (d - 3)

\* for i in S: grid[RowOf(priority[i])][ColOf(days_since_order[i])] += 1
RECURSIVE Characterize(_, _, _, _)
Characterize(grid, S, prio, days) ==
  IF S = {} THEN grid
  ELSE LET i == CHOOSE j \in S : TRUE
       IN  Characterize(
             [grid EXCEPT ![RowOf(prio[i])][ColOf(days[i])] = @ + 1],
             S \ {i}, prio, days)

GridSum(grid) ==
  quicksum([r \in 0..2 |-> quicksum(grid[r], 0..3)], 0..2)

----------------------------------------------------------------------------
\* Selection

\* np.where(sampleset.record.is_feasible == True)[0]
feasible_sols == {k \in 1..Len(sampleset) : sampleset[k].is_feasible}

\* sampleset.filter(lambda d: d.is_feasible)
feasible_sampleset == SelectSeq(sampleset, LAMBDA d : d.is_feasible)

\* np.where(row.sample == 1)[0] / [i for i in sol if sol[i] == 1]
chosen(x) == {i \in DOMAIN x : x[i] = 1}

\* sampleset.record[feasible_sols[0][0]][0]: the first feasible row in
\* solver-returned order
TruckFirst == sampleset[Min(feasible_sols)].sample

\* feasible_sampleset.first.sample: SampleSet.first is the lowest-energy row
\* (np.argsort on the energies, ties in no specified order)
VizFirst ==
  {feasible_sampleset[k].sample : k \in
     {k \in 1..Len(feasible_sampleset) :
        \A j \in 1..Len(feasible_sampleset) :
          feasible_sampleset[k].energy <= feasible_sampleset[j].energy}}

no_output == {}

\* print("No feasible solutions found") / st.write("\nNo feasible solution found.\n")
no_feasible_output == {"no_feasible"}

----------------------------------------------------------------------------
\* The run

Init ==
  /\ script \in Scripts
  /\ pc = "setup"
  /\ num_packages = 0
  /\ priority = << >>
  /\ days_since_order = << >>
  /\ weight = << >>
  /\ max_weight = 0
  /\ max_packages = 0
  /\ cqm = EmptyCQM
  /\ submissions = 0
  /\ sampleset = << >>
  /\ first_feasible_sol = << >>
  /\ problem_array = << >>
  /\ results_array = << >>
  /\ total_weight = << >>
  /\ total_count = << >>
  /\ printed = {}

\* Problem set up.  viz_demo.py also characterizes the problem here.
ProblemSetUp ==
  /\ pc = "setup"
  /\ \E n \in 0..MaxNumPackages :
       /\ num_packages' = n
       /\ priority' \in [range(n) -> PriorityChoices]
       /\ days_since_order' \in [range(n) -> AgeChoices]
       /\ weight' \in [range(n) -> WeightChoices]
       /\ problem_array' =
            IF script = "viz_demo"
            THEN <<Characterize(ZeroGrid, range(n), priority', days_since_order')>>
            ELSE << >>
  /\ max_weight' \in 1..MaxTruckWeight
  /\ max_packages' \in 0..MaxTruckPackages
  /\ pc' = "build"
  /\ UNCHANGED <<script, cqm, submissions, sampleset, first_feasible_sol,
                 results_array, total_weight, total_count, printed>>

\* Build the CQM.  With no packages every quicksum is the number 0: the
\* objective is the float -0.0 and the capacity comparison 0 <= max_weight is
\* the bool True, neither of which the CQM takes (TypeError/AttributeError).
BuildCQM ==
  /\ pc = "build"
  /\ \/ /\ num_packages = 0
        /\ pc' = "error"
        /\ cqm' = cqm
     \/ /\ num_packages > 0
        /\ cqm' = BuiltCQM
        /\ pc' = "submit"
  /\ UNCHANGED <<script, num_packages, priority, days_since_order, weight,
                 max_weight, max_packages, submissions, sampleset,
                 first_feasible_sol, problem_array, results_array,
                 total_weight, total_count, printed>>

\* sampleset = cqm_sampler.sample_cqm(cqm, ...) returns
SolverReturns ==
  /\ pc = "submit"
  /\ submissions' = submissions + 1
  /\ \E len \in 0..MaxSamples :
       \E s \in [1..len -> Assignments(num_packages)] :
         sampleset' = [k \in 1..len |-> Row(s[k])]
  /\ pc' = "process"
  /\ UNCHANGED <<script, num_packages, priority, days_since_order, weight,
                 max_weight, max_packages, cqm, first_feasible_sol,
                 problem_array, results_array, total_weight, total_count,
                 printed>>

SolverFails_retry ==
  /\ pc = "submit"
  /\ submissions < 3
  /\ submissions' = submissions + 1
  /\ pc' = "submit"
  /\ UNCHANGED <<script, num_packages, priority, days_since_order, weight,
                 max_weight, max_packages, cqm, sampleset, first_feasible_sol,
                 problem_array, results_array, total_weight, total_count,
                 printed>>

\* sample_cqm raises (service unreachable, authentication, ...): nothing
\* catches it, the script ends with the traceback
SolverFails ==
  /\ pc = "submit"
  /\ submissions' = submissions + 1
  /\ pc' = "solver_error"
  /\ UNCHANGED <<script, num_packages, priority, days_since_order, weight,
                 max_weight, max_packages, cqm, sampleset, first_feasible_sol,
                 problem_array, results_array, total_weight, total_count,
                 printed>>

\* Process the results, truck_packing_demo.py
ProcessTruck ==
  /\ pc = "process"
  /\ script = "truck_packing_demo"
  /\ IF feasible_sols # {}
     THEN LET sol == chosen(TruckFirst)
          IN  /\ first_feasible_sol' = <<sol>>
              /\ problem_array' =
                   <<Characterize(ZeroGrid, range(num_packages),
                                  priority, days_since_order)>>
              /\ total_weight' = <<quicksum(weight, sol)>>
              /\ results_array' =
                   <<Characterize(ZeroGrid, sol, priority, days_since_order)>>
              /\ total_count' = <<Cardinality(sol)>>
              /\ printed' = {"problem_grid", "solution_grid", "totals"}
     ELSE /\ printed' = no_feasible_output
          /\ UNCHANGED <<first_feasible_sol, problem_array, total_weight,
                         results_array, total_count>>
  /\ pc' = "done"
  /\ UNCHANGED <<script, num_packages, priority, days_since_order, weight,
                 max_weight, max_packages, cqm, submissions, sampleset>>

\* Process the results, viz_demo.py
ProcessViz ==
  /\ pc = "process"
  /\ script = "viz_demo"
  /\ IF Len(feasible_sampleset) = 0
     THEN /\ printed' = no_feasible_output
          /\ UNCHANGED <<first_feasible_sol, total_weight, total_count>>
     ELSE \E x \in VizFirst :
            /\ first_feasible_sol' = <<chosen(x)>>
            /\ total_weight' = <<quicksum(weight, chosen(x))>>
            /\ total_count' = <<Cardinality(chosen(x))>>
            /\ printed' = {"totals", "charts"}
  /\ pc' = "done"
  /\ UNCHANGED <<script, num_packages, priority, days_since_order, weight,
                 max_weight, max_packages, cqm, submissions, sampleset,
                 problem_array, results_array>>

Next ==
  \/ ProblemSetUp
  \/ BuildCQM
  \/ SolverReturns
  \/ SolverFails
  \/ ProcessTruck
  \/ ProcessViz

Spec == Init /\ [][Next]_vars

----------------------------------------------------------------------------
\* Properties

\* The solver returned and the script ran to its end
Finished == pc = "done"

\* The report of the selected assignment is on the page
SolutionReported == "totals" \in printed

\* Number of packages an assignment ships
ShippedCount(x) == Cardinality(chosen(x))

\* Weight an assignment ships
ShippedWeight(x) == quicksum(weight, chosen(x))

\* w_p * sum(priority_i * x_i) + w_d * sum(age_i * x_i)
WeightedValue(x, wp, wd) ==
    wp * quicksum([i \in range(num_packages) |-> priority[i] * x[i]],
                  range(num_packages))
  + wd * quicksum([i \in range(num_packages) |-> days_since_order[i] * x[i]],
                  range(num_packages))

\* Number of packages of S in the bucket of row r, column c
Bucket(S, r, c) ==
  Cardinality({i \in S : priority[i] = 3 - r /\ days_since_order[i] = 3 - c})

\* C1: in both scripts, when some returned assignment is feasible the one
\* consumed is the first feasible one in solver-returned order, and the
\* reported statistics are those of that assignment and of no other.
C1_FirstFeasibleConsumed ==
  (Finished /\ feasible_sols # {}) =>
     /\ first_feasible_sol = <<chosen(TruckFirst)>>
     /\ total_weight = <<ShippedWeight(TruckFirst)>>

\* C2: whenever the selector accepted an assignment, the total_weight it
\* reports is the weight of the shipped packages and is <= max_weight.
C2_CapacityRespected ==
  first_feasible_sol # << >> =>
     /\ total_weight = <<quicksum(weight, first_feasible_sol[1])>>
     /\ total_weight[1] <= max_weight

C2_Witness ==
  /\ Finished
  /\ first_feasible_sol # << >>
  /\ total_weight[1] = max_weight
  /\ \E k \in 1..Len(sampleset) :
       /\ ShippedCount(sampleset[k].sample) = max_packages
       /\ ShippedWeight(sampleset[k].sample) > max_weight

\* C3: the number of shipped packages reported for a selected assignment is
\* max_packages exactly, and no returned assignment shipping fewer than
\* max_packages packages is flagged feasible, whatever its weight.
C3_ExactCount ==
  /\ first_feasible_sol # << >> =>
       /\ total_count = <<Cardinality(first_feasible_sol[1])>>
       /\ total_count[1] = max_packages
  /\ \A k \in 1..Len(sampleset) :
       ShippedCount(sampleset[k].sample) < max_packages
         => ~sampleset[k].is_feasible

C3_Witness ==
  /\ Finished
  /\ first_feasible_sol # << >>
  /\ total_count[1] >= 1
  /\ \E k \in 1..Len(sampleset) :
       /\ ShippedCount(sampleset[k].sample) < max_packages
       /\ ShippedWeight(sampleset[k].sample) <= max_weight
       /\ k < Min(feasible_sols)

\* C4: when the solver returned and no assignment is flagged feasible (an
\* empty sampleset included), the run reports "no feasible solution" and
\* nothing else, computes no total_weight, total_count or solution grid, and
\* ends normally; a finished run reports either "no feasible solution" or a
\* solution, never both and never neither.
C4_NoFeasiblePath ==
  /\ (pc = "process") => ENABLED (ProcessTruck \/ ProcessViz)
  /\ (Finished /\ feasible_sols = {}) =>
       /\ printed = {"no_feasible"}
       /\ first_feasible_sol = << >>
       /\ total_weight = << >>
       /\ total_count = << >>
       /\ results_array = << >>
  /\ Finished => (("no_feasible" \in printed) # SolutionReported)

C4_Witness ==
  /\ Finished
  /\ printed = {"no_feasible"}
  /\ Len(sampleset) > 0
  /\ max_packages <= num_packages

\* C5: whenever max_packages > num_packages the model is built (not
\* rejected), no assignment is feasible, and the run ends normally on the
\* "no feasible solution" path.
C5_CountTooLarge ==
  max_packages > num_packages =>
     /\ pc # "error"
     /\ feasible_sols = {}
     /\ Finished => printed = {"no_feasible"}

\* C6: every package increments exactly the cell [3-priority][3-age], which
\* lies inside the 3x4 grid; the cells of the problem grid sum to
\* num_packages and those of the solution grid to the number shipped.
C6_GridTotals ==
  /\ \A i \in range(num_packages) :
       RowOf(priority[i]) \in 0..2 /\ ColOf(days_since_order[i]) \in 0..3
  /\ problem_array # << >> =>
       /\ GridSum(problem_array[1]) = num_packages
       /\ \A r \in 0..2 : \A c \in 0..3 :
            problem_array[1][r][c] = Bucket(range(num_packages), r, c)
  /\ results_array # << >> =>
       /\ GridSum(results_array[1]) = total_count[1]
       /\ \A r \in 0..2 : \A c \in 0..3 :
            results_array[1][r][c] = Bucket(first_feasible_sol[1], r, c)

C6_Witness ==
  /\ Finished
  /\ results_array # << >>
  /\ num_packages = 2
  /\ total_count = <<1>>
  /\ priority[0] = 1 /\ priority[1] = 3
  /\ days_since_order[0] # days_since_order[1]

\* C7: with num_packages = 0 the model has no variables and the run ends on
\* the "no feasible solution" path if max_packages > 0, and reports
\* total_count = 0 and total_weight = 0 if max_packages = 0.
C7_NoPackages ==
  (num_packages = 0 /\ pc \in {"done", "error"}) =>
     /\ Finished
     /\ IF max_packages > 0
        THEN printed = {"no_feasible"}
        ELSE total_count = <<0>> /\ total_weight = <<0>>

C9_ObjectiveOrdersByValue ==
  /\ pc = "submit" =>
       \A wp \in 1..MaxObjWeight : \A wd \in 1..MaxObjWeight :
         \A x \in Assignments(num_packages) :
           \A y \in Assignments(num_packages) :
             /\ objective(x, wp, wd) = 0 - WeightedValue(x, wp, wd)
             /\ (objective(x, wp, wd) < objective(y, wp, wd))
                  <=> (WeightedValue(x, wp, wd) > WeightedValue(y, wp, wd))
  /\ \A k \in 1..Len(sampleset) :
       sampleset[k].energy =
         0 - WeightedValue(sampleset[k].sample,
                           obj_weight_priority, obj_weight_days)

C9_Witness ==
  /\ pc = "process"
  /\ num_packages = 2
  /\ weight[0] < weight[1]
  /\ days_since_order[0] > days_since_order[1]
  /\ priority[0] = priority[1]
  /\ Len(sampleset) = 2
  /\ sampleset[1].energy < sampleset[2].energy
  /\ ShippedWeight(sampleset[1].sample) < ShippedWeight(sampleset[2].sample)

\* C10: on the same packages, parameters and sampleset both scripts take the
\* same branch and report the same (total_weight, total_count) and the same
\* shipped / not shipped partition: a finished run of either script shows
\* what truck_packing_demo.py computes from that sampleset.
C10_SameStatistics ==
  Finished =>
     IF feasible_sols = {}
     THEN ~SolutionReported /\ "no_feasible" \in printed
     ELSE /\ SolutionReported /\ "no_feasible" \notin printed
          /\ <<total_weight, total_count>> =
               << <<ShippedWeight(TruckFirst)>>, <<ShippedCount(TruckFirst)>> >>
          /\ first_feasible_sol = <<chosen(TruckFirst)>>
          /\ range(num_packages) \ first_feasible_sol[1]
               = {i \in range(num_packages) : TruckFirst[i] = 0}

====
